---- MODULE Spec2Model ----
(***************************************************************************)
(* A model of the SimpleRNG crate (src/lib.rs): the generator RNG with its *)
(* two transition functions lcg and pcg, the derivation operations built   *)
(* on next(), and the two loops of the crate's tests.                      *)
(*                                                                         *)
(* A u64 is a little-endian sequence of 8 bytes (u64::to_le_bytes), since  *)
(* the model checker's integers are narrower than 64 bits.  Every          *)
(* arithmetic operation of the code is computed on these bytes with the    *)
(* width and the wrap-around of the Rust operation it models.              *)
(***************************************************************************)
EXTENDS Integers, Sequences, FiniteSets, TLC

-----------------------------------------------------------------------------
(* Unsigned integers as byte sequences, least significant byte first.      *)

\* F(a) and F(a, b) with the arguments evaluated first and once.  (TLC evaluates
\* the argument of an operator where the operator uses it, and inside ENABLED
\* again at each use; the operators below use their arguments many times.)
Apply1(F(_), a) == CHOOSE y \in {F(x) : x \in {a}} : TRUE
Apply2(F(_, _), a, b) == CHOOSE y \in {F(x, w) : x \in {a}, w \in {b}} : TRUE

Pow2(k) == 2 ^ k

Zeros(n) == SubSeq(<<0, 0, 0, 0, 0, 0, 0, 0, 0, 0>>, 1, n)

\* The 8 bytes F(1), ..., F(8).
Bytes8(F(_)) == <<F(1), F(2), F(3), F(4), F(5), F(6), F(7), F(8)>>

\* x as T for unsigned x and an unsigned T of n bytes: truncation or zero extension.
Resize(a, n) ==
    Apply1(LAMBDA x : IF n <= Len(x) THEN SubSeq(x, 1, n) ELSE x \o Zeros(n - Len(x)), a)

\* The u64 with the value n, for a small natural number n < 2^24.
U64(n) == <<n % 256, (n \div 256) % 256, (n \div 65536) % 256, 0, 0, 0, 0, 0>>

IsZero(a) == \E x \in {a} : \A k \in 1..Len(x) : x[k] = 0

\* Bit k (0 = least significant) of a; 0 beyond its width.
Bit(a, k) ==
    Apply1(LAMBDA x : IF k \div 8 + 1 <= Len(x) THEN (x[k \div 8 + 1] \div Pow2(k % 8)) % 2 ELSE 0,
           a)

RECURSIVE AddFrom(_, _, _, _)
AddFrom(a, b, k, c) ==
    IF k > Len(a) THEN <<c>>
    ELSE LET s == a[k] + b[k] + c
         IN  <<s % 256>> \o AddFrom(a, b, k + 1, s \div 256)

\* a + b for two numbers of the same width n, as n + 1 bytes (the last is the carry).
WideAdd(a, b) == Apply2(LAMBDA x, w : AddFrom(x, w, 1, 0), a, b)

RECURSIVE SubFrom(_, _, _, _)
SubFrom(a, b, k, c) ==
    IF k > Len(a) THEN <<>>
    ELSE LET s == a[k] - b[k] - c
         IN  <<(s + 256) % 256>> \o SubFrom(a, b, k + 1, IF s < 0 THEN 1 ELSE 0)

\* a - b modulo 256^n for two numbers of the same width n.
WrappingSub(a, b) == Apply2(LAMBDA x, w : SubFrom(x, w, 1, 0), a, b)

RECURSIVE LtFrom(_, _, _)
LtFrom(a, b, k) ==
    IF k = 0 THEN FALSE
    ELSE IF a[k] # b[k] THEN a[k] < b[k]
    ELSE LtFrom(a, b, k - 1)

\* a < b, a <= b for two numbers of the same width.
Lt(a, b) == \E x \in {a}, w \in {b} : LtFrom(x, w, Len(x))
Le(a, b) == ~Lt(b, a)

RECURSIVE ColSum(_, _, _, _)
ColSum(a, b, k, j) ==
    IF j > k THEN 0 ELSE a[j] * b[k - j + 1] + ColSum(a, b, k, j + 1)

RECURSIVE MulFrom(_, _, _, _)
MulFrom(a, b, k, c) ==
    IF k > Len(a) THEN <<>>
    ELSE LET s == ColSum(a, b, k, 1) + c
         IN  <<s % 256>> \o MulFrom(a, b, k + 1, s \div 256)

\* u64::wrapping_mul and u64::wrapping_add: the low 64 bits of the result.
wrapping_mul(a, b) == Apply2(LAMBDA x, w : MulFrom(x, w, 1, 0), a, b)
wrapping_add(a, b) == Apply2(LAMBDA x, w : SubSeq(AddFrom(x, w, 1, 0), 1, Len(x)), a, b)

\* a >> n for a u64 and 0 <= n < 64.
Shr(a, n) ==
    LET q == n \div 8
        r == n % 8
    IN  Apply1(LAMBDA x :
                   LET B(k) == IF k <= 8 THEN x[k] ELSE 0
                       Byte(j) == (B(j + q) \div Pow2(r)) + (B(j + q + 1) % Pow2(r)) * Pow2(8 - r)
                   IN  Bytes8(Byte),
               a)

\* u64::rotate_right(n): a rotation by n modulo 64 bits.
rotate_right(a, n) ==
    Apply2(LAMBDA x, m :
               LET q == m \div 8
                   r == m % 8
                   B(k) == x[((k - 1) % 8) + 1]
                   Byte(j) == (B(j + q) \div Pow2(r)) + (B(j + q + 1) % Pow2(r)) * Pow2(8 - r)
               IN  Bytes8(Byte),
           a, n % 64)

RECURSIVE XorByte(_, _)
XorByte(x, y) ==
    IF x = 0 /\ y = 0 THEN 0
    ELSE ((x + y) % 2) + 2 * XorByte(x \div 2, y \div 2)

\* a ^ b for two u64
Xor(a, b) == Apply2(LAMBDA x, w : LET Byte(j) == XorByte(x[j], w[j]) IN Bytes8(Byte), a, b)

\* The numerical value of an unsigned integer whose value is below 2^24 (-1 when
\* it is not).
SmallValue(a) ==
    Apply1(LAMBDA x :
               IF \A k \in 4..Len(x) : x[k] = 0 THEN x[1] + 256 * x[2] + 65536 * x[3] ELSE -1,
           a)

\* One step of binary long division: the remainder r (9 bytes, r < d) takes the
\* next bit of the dividend.
RemBit(r, bit, d) ==
    LET r2 == SubSeq(AddFrom(r, r, 1, 0), 1, Len(r))
        r3 == [r2 EXCEPT ![1] = r2[1] + bit]
    IN  Apply1(LAMBDA x : IF LtFrom(x, d, Len(x)) THEN x ELSE SubFrom(x, d, 1, 0), r3)

\* The eight bits 7, ..., 0 of one byte of the dividend: the remainder after the
\* bits k, ..., 0, given the one, r, after the bits above k.
RECURSIVE RemByte(_, _, _, _)
RemByte(r, byte, k, d) ==
    IF k < 0 THEN r
    ELSE Apply1(LAMBDA x : RemByte(x, byte, k - 1, d), RemBit(r, (byte \div Pow2(k)) % 2, d))

\* The remainder after the bytes 8, ..., k of the dividend a, given the one, r,
\* after the bytes above k.
RECURSIVE RemFrom(_, _, _, _)
RemFrom(a, d, k, r) ==
    IF k = 0 THEN r
    ELSE Apply1(LAMBDA x : RemFrom(a, d, k - 1, x), RemByte(r, a[k], 7, d))

\* a % d for two u64 and d # 0: binary long division; the running remainder has
\* 9 bytes and stays below d.
Rem(a, d) == Apply2(LAMBDA x, w : SubSeq(RemFrom(x, w, 8, Zeros(9)), 1, 8), a, Resize(d, 9))

-----------------------------------------------------------------------------
(* The transition functions.                                               *)

\* 6364136223846793005 = 0x5851F42D4C957F2D
U64_MAX == <<255, 255, 255, 255, 255, 255, 255, 255>>

\* f64::MANTISSA_DIGITS
F64_MANTISSA_DIGITS == 53

LcgMultiplier == <<45, 127, 149, 76, 45, 244, 81, 88>>

\* lcg without its increment: seed.wrapping_mul(6364136223846793005)
lcg_no_increment(seed) == wrapping_mul(seed, LcgMultiplier)

lcg(seed) == wrapping_add(wrapping_mul(seed, LcgMultiplier), U64(1))

pcg(seed) ==
    Apply1(LAMBDA state :
               LET xorshifted == Shr(Xor(Shr(state, 18), state), 27)
                   rot == Resize(Shr(state, 59), 4)
               IN  rotate_right(xorshifted, SmallValue(rot)),
           lcg(seed))

-----------------------------------------------------------------------------
(* f64.  The only floating-point values the crate computes are the         *)
(* conversions of unsigned integers and their sum with 1.0, which are      *)
(* integers, and one quotient.  An integer-valued f64 is modelled by its   *)
(* value, a byte sequence like the integers above.                         *)

RECURSIVE TopByte(_, _)
TopByte(a, i) == IF i = 0 THEN 0 ELSE IF a[i] # 0 THEN i ELSE TopByte(a, i - 1)

RECURSIVE BitLen(_)
BitLen(x) == IF x = 0 THEN 0 ELSE 1 + BitLen(x \div 2)

\* The number of significant bits of a.
Bits(a) == LET t == TopByte(a, Len(a)) IN IF t = 0 THEN 0 ELSE 8 * (t - 1) + BitLen(a[t])

\* a with its sh low bits cleared.
ClearLow(a, sh) ==
    [j \in 1..Len(a) |->
        LET lo == 8 * (j - 1)
        IN  IF lo + 8 <= sh THEN 0
            ELSE IF lo >= sh THEN a[j]
            ELSE (a[j] \div Pow2(sh - lo)) * Pow2(sh - lo)]

\* 2^k as a number of n bytes.
PowerOfTwo(k, n) == [j \in 1..n |-> IF j = k \div 8 + 1 THEN Pow2(k % 8) ELSE 0]

\* The f64 nearest to the natural number a (IEEE 754 binary64: a 53-bit
\* significand, round to nearest, ties to even), as Len(a) + 1 bytes.
Nearest(a) ==
    LET sh == Bits(a) - F64_MANTISSA_DIGITS
        half == Bit(a, sh - 1) = 1
        sticky == \E j \in 0..(sh - 2) : Bit(a, j) = 1
        odd == Bit(a, sh) = 1
    IN  IF sh <= 0 THEN Resize(a, Len(a) + 1)
        ELSE IF half /\ (sticky \/ odd) THEN WideAdd(ClearLow(a, sh), PowerOfTwo(sh, Len(a)))
        ELSE Resize(ClearLow(a, sh), Len(a) + 1)

RoundF64(a) == Apply1(Nearest, a)

\* x as f64 for a u64 x: 9 bytes, since the result can be 2^64.
as_f64(x) == RoundF64(x)

\* x + y for two integer-valued f64 of 9 bytes: the exact sum, rounded.
F64Add(x, y) == Resize(RoundF64(SubSeq(WideAdd(x, y), 1, 9)), 9)

\* x / y for two integer-valued f64 where y is a power of two and the quotient is
\* in the normal range: the division only changes the exponent, so the result is
\* exactly the rational number x / y, kept as the pair of the two.
F64Div(x, y) == [num |-> x, den |-> y]

F64_ONE == Resize(U64(1), 9)

-----------------------------------------------------------------------------
(* The generator.                                                          *)

VARIABLES
    rng,              \* the RNG value: [seed, algorithm]
    overflow_checks,  \* the build profile: whether integer overflow panics (debug) or wraps (release)
    op,               \* the call made last: [name, args]
    ret,              \* what that call returned, or that it panicked
    steps,            \* the number of calls made
    advances,         \* the number of times next() has run (a history variable)
    v, len0, pc,      \* test_shuffle: the vector, its first length, the place in the test
    trues, falses, i  \* test_gen_bool_distribution: the two counters and the loop's count

vars == <<rng, overflow_checks, op, ret, steps, advances, v, len0, pc, trues, falses, i>>

Ok(x) == [kind |-> "ok", val |-> x]
Unit == [kind |-> "unit"]
None == [kind |-> "none"]
Some(x, at) == [kind |-> "some", val |-> x, index |-> at]
Panic(msg) == [kind |-> "panic", msg |-> msg]

new(seed) == [seed |-> seed, algorithm |-> "Lcg"]

set_algorithm(self, algorithm) == [self EXCEPT !.algorithm = algorithm]

\* The seed after next(), which is also the value next() returns.
transition(self) ==
    CASE self.algorithm = "Lcg" -> lcg(self.seed)
      [] self.algorithm = "Pcg" -> pcg(self.seed)

\* What a call on the generator self does: the generator after it, what it returns
\* (or that it panics), and how many times it ran next().
Outcome(self, result, n) == [rng |-> self, ret |-> result, advances |-> n]

next(self) ==
    LET seed == transition(self)
    IN  Outcome([self EXCEPT !.seed = seed], Ok(seed), 1)

\* gen_range with a span one too wide: range = max - min + 2
gen_range_off_by_one(self, min, max) ==
    IF Le(max, min) THEN Outcome(self, Panic("max must be greater than min"), 0)
    ELSE LET n == next(self)
             range == wrapping_add(WrappingSub(max, min), U64(2))
         IN  Outcome(n.rng, Ok(wrapping_add(Rem(n.ret.val, range), min)), n.advances)

gen_range(self, min, max) ==
    IF Le(max, min) THEN Outcome(self, Panic("max must be greater than min"), 0)
    ELSE LET sum == WideAdd(WrappingSub(max, min), U64(1))
             range == SubSeq(sum, 1, 8)
         IN  IF sum[9] # 0 /\ overflow_checks
             THEN Outcome(self, Panic("attempt to add with overflow"), 0)
             ELSE LET n == next(self)
                  IN  IF IsZero(range)
                      THEN Outcome(n.rng,
                               Panic("attempt to calculate the remainder with a divisor of zero"),
                               n.advances)
                      ELSE LET r == WideAdd(Rem(n.ret.val, range), min)
                           IN  IF r[9] # 0 /\ overflow_checks
                               THEN Outcome(n.rng, Panic("attempt to add with overflow"), n.advances)
                               ELSE Outcome(n.rng, Ok(SubSeq(r, 1, 8)), n.advances)

\* gen_float from the current seed, with no call of next()
gen_float_no_advance(self) ==
    Outcome(self, Ok(F64Div(as_f64(self.seed), F64Add(as_f64(U64_MAX), F64_ONE))), 0)

gen_float(self) ==
    LET n == next(self)
    IN  Outcome(n.rng, Ok(F64Div(as_f64(n.ret.val), F64Add(as_f64(U64_MAX), F64_ONE))),
                n.advances)

\* gen_bool from the second bit: self.next() & 2 == 2
gen_bool_second_bit(self) ==
    LET n == next(self)
    IN  Outcome(n.rng, Ok(Bit(n.ret.val, 1) = 1), n.advances)

gen_bool(self) ==
    LET n == next(self)
    IN  Outcome(n.rng, Ok(Bit(n.ret.val, 0) = 1), n.advances)

\* x as iN as isize: the low bytes of x, sign-extended to the 8 bytes of an isize.
SignExtend(x, bytes) ==
    Apply1(LAMBDA w :
               LET Byte(j) == IF j <= bytes THEN w[j] ELSE IF w[bytes] >= 128 THEN 255 ELSE 0
               IN  Bytes8(Byte),
           x)

\* gen_unsigned whose last arm returns the whole output instead of panicking
gen_unsigned_default_arm(self, size) ==
    LET n == next(self)
    IN  Outcome(n.rng, Ok(Resize(Resize(n.ret.val, IF size \in {8, 16, 32} THEN size \div 8 ELSE 8), 8)),
                n.advances)

\* usize and isize have 64 bits (a 64-bit target).
gen_unsigned(self, size) ==
    IF size \in {8, 16, 32, 64}
    THEN LET n == next(self)
         IN  Outcome(n.rng, Ok(Resize(Resize(n.ret.val, size \div 8), 8)), n.advances)
    ELSE Outcome(self, Panic("Unsupported size"), 0)

gen_signed(self, size) ==
    IF size \in {8, 16, 32, 64}
    THEN LET n == next(self)
         IN  Outcome(n.rng, Ok(SignExtend(n.ret.val, size \div 8)), n.advances)
    ELSE Outcome(self, Panic("Unsupported size"), 0)

\* slice.get(idx)
get(slice, idx) == IF idx >= 0 /\ idx < Len(slice) THEN Some(slice[idx + 1], idx) ELSE None

pick_random(self, slice) ==
    IF Len(slice) = 0 THEN Outcome(self, None, 0)
    ELSE LET g == gen_range(self, U64(0), WrappingSub(U64(Len(slice)), U64(1)))
         IN  IF g.ret.kind = "panic" THEN g
             ELSE Outcome(g.rng, get(slice, SmallValue(g.ret.val)), g.advances)

-----------------------------------------------------------------------------
(* The inputs of the model.                                                *)

\* The longest run of calls on one generator.
MaxSteps == 2

\* The longest vector test_shuffle starts from (the test's own has 4 elements).
MaxLen == 5

\* Seeds: the small ones of the tests and the doc examples (0, 1, 42, 84, 123),
\* the largest, and seeds chosen by what lcg makes of them:
\*   9137839865990459062 -> 2^64 - 1         2238856530879388342 -> 2^64 - 1025
\*   16116680671593710427 -> 2^64 - 1024     13287046302031654582 -> 2^27 - 1
Seeds ==
    { U64(0), U64(1), U64(42), U64(84), U64(123), U64_MAX,
      <<182, 174, 195, 154, 241, 32, 208, 126>>,
      <<182, 26, 33, 34, 39, 4, 18, 31>>,
      <<91, 67, 191, 84, 174, 243, 169, 223>>,
      <<182, 174, 195, 194, 54, 18, 101, 184>> }

\* The (min, max) pairs gen_range is called with.
RangeArgs ==
    { <<U64(0), U64(3)>>, <<U64(1), U64(6)>>, <<U64(10), U64(20)>>,
      <<U64(0), U64(1)>>, <<U64(5), U64(5)>>, <<U64(10), U64(1)>>,
      <<U64(0), U64_MAX>>, <<U64(1), U64_MAX>>, <<U64(0), WrappingSub(U64_MAX, U64(1))>>,
      <<WrappingSub(U64_MAX, U64(1)), U64_MAX>>, <<U64_MAX, U64_MAX>> }

\* The size arguments of gen_unsigned and gen_signed (a u8).
Sizes == {0, 8, 16, 24, 32, 64, 255}

\* The vector <<1, ..., n>>.
Iota(n) == [k \in 1..n |-> k]

\* The slices pick_random is called with.
Slices == {Iota(n) : n \in 0..4}

Algorithms == {"Lcg", "Pcg"}

-----------------------------------------------------------------------------
(* Calls on one generator, in any order: RNG::new(seed), then at most      *)
(* MaxSteps calls.  A panic ends the run.                                  *)

NoTest ==
    /\ v = <<>> /\ len0 = 0 /\ pc = "api"
    /\ trues = 0 /\ falses = 0 /\ i = 0

Init ==
    /\ \E seed \in Seeds : rng = new(seed)
    /\ overflow_checks \in BOOLEAN
    /\ op = [name |-> "new", args |-> <<>>]
    /\ ret = Unit
    /\ steps = 0
    /\ advances = 0
    /\ NoTest

Running == pc = "api" /\ ret.kind # "panic" /\ steps < MaxSteps

Call(name, args, result) ==
    /\ Running
    /\ \E out \in {result} :
           /\ rng' = out.rng
           /\ ret' = out.ret
           /\ advances' = advances + out.advances
    /\ op' = [name |-> name, args |-> args]
    /\ steps' = steps + 1
    /\ UNCHANGED <<overflow_checks, v, len0, pc, trues, falses, i>>

SetAlgorithm ==
    \E a \in Algorithms :
        Call("set_algorithm", <<a>>, Outcome(set_algorithm(rng, a), Unit, 0))

CallNext == Call("next", <<>>, next(rng))

GenRange == \E a \in RangeArgs : Call("gen_range", a, gen_range(rng, a[1], a[2]))

GenFloat == Call("gen_float", <<>>, gen_float(rng))

GenBool == Call("gen_bool", <<>>, gen_bool(rng))

GenUnsigned == \E size \in Sizes : Call("gen_unsigned", <<size>>, gen_unsigned(rng, size))

GenSigned == \E size \in Sizes : Call("gen_signed", <<size>>, gen_signed(rng, size))

PickRandom == \E slice \in Slices : Call("pick_random", <<slice>>, pick_random(rng, slice))

Next ==
    \/ SetAlgorithm
    \/ CallNext
    \/ GenRange
    \/ GenFloat
    \/ GenBool
    \/ GenUnsigned
    \/ GenSigned
    \/ PickRandom

Spec == Init /\ [][Next]_vars

-----------------------------------------------------------------------------
(* std_tests::test_shuffle, from any seed of Seeds and any vector of       *)
(* 1..MaxLen elements (the test's own: seed 123 and vec![1, 2, 3, 4]).     *)

\* Vec::remove(idx), for idx < v.len()
remove(vec, idx) == SubSeq(vec, 1, idx) \o SubSeq(vec, idx + 2, Len(vec))

ShuffleInit ==
    /\ \E seed \in Seeds : rng = new(seed)
    /\ overflow_checks \in BOOLEAN
    /\ op = [name |-> "new", args |-> <<>>]
    /\ ret = Unit
    /\ steps = 0
    /\ advances = 0
    /\ \E n \in 1..MaxLen : v = Iota(n) /\ len0 = n
    /\ pc = "while"
    /\ trues = 0 /\ falses = 0 /\ i = 0

\* while v.len() > 1 { let idx = rng.gen_range(0, v.len() as u64 - 1) as usize; v.remove(idx); }
ShuffleLoop ==
    /\ pc = "while"
    /\ Len(v) > 1
    /\ \E args \in {<<U64(0), WrappingSub(U64(Len(v)), U64(1))>>} :
       \E g \in {gen_range(rng, args[1], args[2])} :
       \E idx \in {IF g.ret.kind = "ok" THEN SmallValue(g.ret.val) ELSE -1} :
           /\ rng' = g.rng
           /\ ret' = g.ret
           /\ op' = [name |-> "gen_range", args |-> args]
           /\ steps' = steps + 1
           /\ advances' = advances + g.advances
           /\ IF idx >= 0 /\ idx < Len(v)
              THEN v' = remove(v, idx) /\ pc' = "while"
              ELSE v' = v /\ pc' = "panicked"
    /\ UNCHANGED <<overflow_checks, len0, trues, falses, i>>

ShuffleExit ==
    /\ pc = "while"
    /\ Len(v) <= 1
    /\ pc' = "if"
    /\ UNCHANGED <<rng, overflow_checks, op, ret, steps, advances, v, len0, trues, falses, i>>

\* if !v.is_empty() { v.remove(0); }
ShuffleLast ==
    /\ pc = "if"
    /\ v' = IF Len(v) # 0 THEN remove(v, 0) ELSE v
    /\ pc' = "assert"
    /\ UNCHANGED <<rng, overflow_checks, op, ret, steps, advances, len0, trues, falses, i>>

\* assert!(v.is_empty());
ShuffleAssert ==
    /\ pc = "assert"
    /\ pc' = IF Len(v) = 0 THEN "done" ELSE "panicked"
    /\ UNCHANGED <<rng, overflow_checks, op, ret, steps, advances, v, len0, trues, falses, i>>

ShuffleNext ==
    \/ ShuffleLoop
    \/ ShuffleExit
    \/ ShuffleLast
    \/ ShuffleAssert

\* The test is one thread that runs until it returns or panics.
ShuffleSpec == ShuffleInit /\ [][ShuffleNext]_vars /\ WF_vars(ShuffleNext)

-----------------------------------------------------------------------------
(* tests::test_gen_bool_distribution, from any seed of Seeds (the test's   *)
(* own: seed 1).                                                           *)

\* for _ in 0..1000
Samples == 1000

BoolInit ==
    /\ \E seed \in Seeds : rng = new(seed)
    /\ overflow_checks \in BOOLEAN
    /\ op = [name |-> "new", args |-> <<>>]
    /\ ret = Unit
    /\ steps = 0
    /\ advances = 0
    /\ v = <<>> /\ len0 = 0
    /\ pc = "for"
    /\ trues = 0 /\ falses = 0 /\ i = 0

\* if rng.gen_bool() { trues += 1; } else { falses += 1; }
BoolLoop ==
    /\ pc = "for"
    /\ i < Samples
    /\ \E g \in {gen_bool(rng)} :
           /\ rng' = g.rng
           /\ ret' = g.ret
           /\ op' = [name |-> "gen_bool", args |-> <<>>]
           /\ steps' = steps + 1
           /\ advances' = advances + g.advances
           /\ trues' = IF g.ret.val THEN trues + 1 ELSE trues
           /\ falses' = IF g.ret.val THEN falses ELSE falses + 1
    /\ i' = i + 1
    /\ UNCHANGED <<overflow_checks, v, len0, pc>>

\* assert!(trues > 0 && falses > 0);
BoolAssert ==
    /\ pc = "for"
    /\ i = Samples
    /\ pc' = IF trues > 0 /\ falses > 0 THEN "done" ELSE "panicked"
    /\ UNCHANGED <<rng, overflow_checks, op, ret, steps, advances, v, len0, trues, falses, i>>

BoolNext ==
    \/ BoolLoop
    \/ BoolAssert

BoolSpec == BoolInit /\ [][BoolNext]_vars /\ WF_vars(BoolNext)

-----------------------------------------------------------------------------
(* The properties.                                                         *)

Derivations ==
    {"gen_range", "gen_float", "gen_bool", "gen_unsigned", "gen_signed", "pick_random"}

\* A call whose argument the operation rejects.
InvalidArgument(call) ==
    \/ call.name = "gen_range" /\ Le(call.args[2], call.args[1])
    \/ call.name \in {"gen_unsigned", "gen_signed"} /\ call.args[1] \notin {8, 16, 32, 64}

\* C1: gen_range(min, max) with max > min, the pair (0, 2^64 - 1) included, returns
\* a value v with min <= v <= max and does not fail.
C1_RangeContainment ==
    (op.name = "gen_range" /\ Lt(op.args[1], op.args[2]))
        => /\ ret.kind = "ok"
           /\ Le(op.args[1], ret.val)
           /\ Le(ret.val, op.args[2])

\* C2: pick_random on a slice of one or more elements returns a reference to one
\* of its elements, at an index below its length, and does not fail; it returns
\* None only for the empty slice.
C2_PickRandomElement ==
    op.name = "pick_random"
        => LET slice == op.args[1]
           IN  /\ Len(slice) >= 1
                     => /\ ret.kind = "some"
                        /\ ret.index \in 0..(Len(slice) - 1)
                        /\ ret.val = slice[ret.index + 1]
               /\ ret.kind = "none" => Len(slice) = 0

\* C3: a call with an invalid argument (gen_range with max <= min, gen_unsigned or
\* gen_signed with a size other than 8, 16, 32, 64) panics with the operation's
\* own message, returns nothing, and leaves the seed and the algorithm as they
\* were, with no run of next().
C3_InvalidArgumentFails ==
    [][InvalidArgument(op')
          => /\ ret'.kind = "panic"
             /\ ret'.msg \in {"max must be greater than min", "Unsupported size"}
             /\ rng' = rng
             /\ advances' = advances]_vars

C3_Witness ==
    /\ op.name = "gen_range" /\ op.args = <<U64(10), U64(1)>>
    /\ ret.kind = "panic"
    /\ steps = 2 /\ advances = 1 /\ rng.algorithm = "Lcg"

\* C5: under Lcg, a run of next() (called directly or by a derivation) changes the
\* seed, whatever the seed is.
C5_LcgChangesSeed ==
    [][(rng.algorithm = "Lcg" /\ advances' = advances + 1) => rng'.seed # rng.seed]_vars

C5_Witness ==
    /\ op.name = "next" /\ rng.algorithm = "Lcg" /\ steps = 1
    /\ rng.seed = U64(1)

\* C6: under Pcg, next() changes the seed, whatever the seed is, 0 included.
C6_PcgChangesSeed ==
    [][(op'.name = "next" /\ rng.algorithm = "Pcg") => rng'.seed # rng.seed]_vars

C8_FloatBelowOne ==
    op.name = "gen_float" => ret.kind = "ok" /\ Lt(ret.val.num, ret.val.den)

\* C9: gen_bool() returns the low bit of the seed next() has just made, and from
\* any seed the calls of test_gen_bool_distribution return both true and false:
\* two calls are enough, and the test's assertion holds after its 1000.
C9_BoolBothValues ==
    /\ op.name = "gen_bool" => ret.kind = "ok" /\ ret.val = (rng.seed[1] % 2 = 1)
    /\ trues + falses = i
    /\ i >= 2 => trues > 0 /\ falses > 0
    /\ pc # "panicked"

C9_Witness == pc = "done" /\ i = Samples /\ trues > 0 /\ falses > 0

\* C10: test_shuffle, from a vector of n >= 1 elements and any seed: each pass of
\* the loop draws an index below the length and removes one element, nothing
\* panics, and the test ends with the vector empty after n - 1 calls of gen_range.
C10_DrainTerminates ==
    /\ [][(pc = "while" /\ Len(v) > 1)
             => /\ ret'.kind = "ok"
                /\ SmallValue(ret'.val) \in 0..(Len(v) - 1)
                /\ Len(v') = Len(v) - 1
                /\ steps' = steps + 1]_vars
    /\ [](pc # "panicked")
    /\ [](pc = "done" => v = <<>> /\ steps = len0 - 1 /\ advances = len0 - 1)
    /\ <>(pc = "done")

C10_Witness == pc = "done" /\ len0 = 4 /\ steps = 3 /\ v = <<>>

====
